---- MODULE Spec2Model ----
(***************************************************************************)
(* A model of pythia/spherical_harmonics.py: the process-wide              *)
(* Clebsch-Gordan coefficient cache (_clebsch_gordan_cache) and the        *)
(* bispectrum assembler (bispectrum).                                      *)
(*                                                                         *)
(* Numbers.  The code computes in IEEE floating point.  The model keeps    *)
(* the real value of every finite quantity exactly and keeps the IEEE      *)
(* special values (NaN, +inf, -inf) as such:                               *)
(*   - a rational is a pair <<n, d>> in lowest terms, d > 0;               *)
(*   - a finite real is a "surd": a function from square-free radicands r  *)
(*     to nonzero rationals q, standing for the sum of q * sqrt(r)         *)
(*     (Clebsch-Gordan coefficients are rational multiples of square       *)
(*     roots; radicand 1 holds the rational part); the empty function is 0;*)
(*   - a float is a record [k, v]: k = "fin" with the surd v, or           *)
(*     k = "nan" / "pinf" / "ninf";                                        *)
(*   - a complex number is a record [re, im] of two floats.                *)
(* Rounding is not modelled.                                               *)
(***************************************************************************)
EXTENDS Integers, Sequences, FiniteSets, TLC

\* ------------------------------------------------------------------ bounds
\* Largest lmax a call passes.
MaxLmax == 1
\* Largest number of rows (bonds) of a neighbor list.
MaxBonds == 2
\* Largest number of particles.
MaxParticles == 2

\* ------------------------------------------------------------- rationals
Abs(x) == IF x < 0 THEN -x ELSE x

RECURSIVE GCD(_, _)
GCD(a, b) == IF b = 0 THEN a ELSE GCD(b, a % b)

RNorm(n, d) ==
    LET g == GCD(Abs(n), Abs(d))
        s == IF d < 0 THEN -1 ELSE 1
    IN  <<(s * n) \div g, (s * d) \div g>>

RZero == <<0, 1>>
ROne == <<1, 1>>
RInt(n) == <<n, 1>>
RAdd(a, b) == IF a[2] = b[2] THEN RNorm(a[1] + b[1], a[2])
              ELSE RNorm(a[1] * b[2] + b[1] * a[2], a[2] * b[2])
RMul(a, b) == RNorm(a[1] * b[1], a[2] * b[2])
RNeg(a) == <<-a[1], a[2]>>

\* ------------------------------------------------------------------ surds
\* Integer square root (floor) of n < 2^31: the block of 256 it lies in,
\* then the root within the block.
ISqrtIn(n, a) ==
    CHOOSE k \in (256 * a)..(256 * a + 255) :
        k * k <= n /\ (k >= 46340 \/ (k + 1) * (k + 1) > n)
ISqrt(n) ==
    ISqrtIn(n, CHOOSE a \in 0..181 :
                   a = 181 \/ (256 * (a + 1)) * (256 * (a + 1)) > n)

\* The largest k with k*k dividing n, searched downward from r.
SquarePartFrom(n, r) ==
    r - (CHOOSE i \in 0..(r - 1) : n % ((r - i) * (r - i)) = 0)
SquarePart(n) == SquarePartFrom(n, ISqrt(n))

SZero == [r \in {} |-> RZero]
\* q * sqrt(n) for a rational q and a positive integer n.
SRoot(q, n) ==
    LET g == SquarePart(n)
        t == n \div (g * g)
    IN  IF q[1] = 0 THEN SZero ELSE [r \in {t} |-> RMul(q, RInt(g))]
SRat(q) == SRoot(q, 1)

SAdd(a, b) ==
    IF DOMAIN a = {} THEN b
    ELSE IF DOMAIN b = {} THEN a
    ELSE LET D == (DOMAIN a) \cup (DOMAIN b)
             f == [r \in D |-> IF r \notin DOMAIN b THEN a[r]
                               ELSE IF r \notin DOMAIN a THEN b[r]
                               ELSE RAdd(a[r], b[r])]
             K == {r \in D : f[r][1] # 0}
         IN  [r \in K |-> f[r]]

SNeg(a) == [r \in DOMAIN a |-> RNeg(a[r])]

RECURSIVE SMulPairs(_, _, _)
SMulPairs(a, b, P) ==
    IF P = {} THEN SZero
    ELSE LET p == CHOOSE x \in P : TRUE
         IN  SAdd(SRoot(RMul(a[p[1]], b[p[2]]), p[1] * p[2]),
                  SMulPairs(a, b, P \ {p}))

SMul(a, b) ==
    IF DOMAIN a = {} \/ DOMAIN b = {} THEN SZero
    ELSE IF DOMAIN b = {1} THEN [r \in DOMAIN a |-> RMul(a[r], b[1])]
    ELSE IF DOMAIN a = {1} THEN [r \in DOMAIN b |-> RMul(b[r], a[1])]
    ELSE SMulPairs(a, b, (DOMAIN a) \X (DOMAIN b))

\* The sign of the real a surd stands for, decided exactly.  Terms of one
\* sign decide it.  A mixed sum is split on the least prime p dividing a
\* radicand as A + B * sqrt(p), with A and B free of p; when A and B differ
\* in sign, A + B * sqrt(p) has the sign of A exactly when A^2 > p * B^2,
\* and A^2 - p * B^2 is again free of p.
SLeastPrime(a) ==
    CHOOSE p \in 2..(CHOOSE m \in DOMAIN a : \A r \in DOMAIN a : r <= m) :
        /\ \E r \in DOMAIN a : r % p = 0
        /\ \A q \in 2..(p - 1) : \A r \in DOMAIN a : r % q # 0
SFreeOf(a, p) == [r \in {x \in DOMAIN a : x % p # 0} |-> a[r]]
SCoefOf(a, p) ==
    [t \in {x \div p : x \in {y \in DOMAIN a : y % p = 0}} |-> a[t * p]]

RECURSIVE SSign(_)
SSign(a) ==
    IF DOMAIN a = {} THEN 0
    ELSE IF \A r \in DOMAIN a : a[r][1] > 0 THEN 1
    ELSE IF \A r \in DOMAIN a : a[r][1] < 0 THEN -1
    ELSE LET p == SLeastPrime(a)
             A == SFreeOf(a, p)
             B == SCoefOf(a, p)
             sA == SSign(A)
             sB == SSign(B)
         IN  IF sA = 0 THEN sB
             ELSE IF sB = 0 \/ sA = sB THEN sA
             ELSE sA * SSign(SAdd(SMul(A, A),
                                  SNeg(SMul(SRat(RInt(p)), SMul(B, B)))))

\* ----------------------------------------------------------------- floats
Fin(s) == [k |-> "fin", v |-> s]
NaN == [k |-> "nan", v |-> SZero]
PInf == [k |-> "pinf", v |-> SZero]
NInf == [k |-> "ninf", v |-> SZero]
FZero == Fin(SZero)
FInt(n) == Fin(SRat(RInt(n)))

FSign(x) == IF x.k = "pinf" THEN 1 ELSE IF x.k = "ninf" THEN -1 ELSE SSign(x.v)
FInfOf(s) == IF s > 0 THEN PInf ELSE NInf

FNeg(x) ==
    IF x.k = "fin" THEN Fin(SNeg(x.v))
    ELSE IF x.k = "pinf" THEN NInf
    ELSE IF x.k = "ninf" THEN PInf
    ELSE NaN

FAdd(x, y) ==
    IF x.k = "nan" \/ y.k = "nan" THEN NaN
    ELSE IF x.k = "fin" /\ y.k = "fin" THEN Fin(SAdd(x.v, y.v))
    ELSE IF x.k = "fin" THEN y
    ELSE IF y.k = "fin" THEN x
    ELSE IF x.k = y.k THEN x
    ELSE NaN

FSub(x, y) == FAdd(x, FNeg(y))

FMul(x, y) ==
    IF x.k = "nan" \/ y.k = "nan" THEN NaN
    ELSE IF x.k = "fin" /\ y.k = "fin" THEN Fin(SMul(x.v, y.v))
    ELSE LET s == FSign(x) * FSign(y)
         IN  IF s = 0 THEN NaN ELSE FInfOf(s)

\* x / n for an integer n >= 0, as IEEE division does it.
FDivInt(x, n) ==
    IF x.k = "nan" THEN NaN
    ELSE IF n = 0 THEN (IF FSign(x) = 0 THEN NaN ELSE FInfOf(FSign(x)))
    ELSE IF x.k = "fin" THEN Fin(SMul(x.v, SRat(<<1, n>>)))
    ELSE x

FIsNaN(x) == x.k = "nan"

\* ---------------------------------------------------------------- complex
Cx(re, im) == [re |-> re, im |-> im]
CZero == Cx(FZero, FZero)
CNaN == Cx(NaN, NaN)
CInt(a, b) == Cx(FInt(a), FInt(b))
CReal(x) == Cx(x, FZero)

CAdd(z, w) == Cx(FAdd(z.re, w.re), FAdd(z.im, w.im))
CMul(z, w) == Cx(FSub(FMul(z.re, w.re), FMul(z.im, w.im)),
                 FAdd(FMul(z.re, w.im), FMul(z.im, w.re)))
CConj(z) == Cx(z.re, FNeg(z.im))
CIsNaN(z) == FIsNaN(z.re) \/ FIsNaN(z.im)

\* ------------------------------------------- exact coupling coefficients
\* sympy.physics.wigner works in exact arithmetic; a value of it is kept as
\* [coef, rad], standing for coef * sqrt(rad) with rationals coef and rad.
Factorial(n) ==
    IF n <= 1 THEN 1
    ELSE <<1, 2, 6, 24, 120, 720, 5040, 40320, 362880, 3628800, 39916800,
           479001600>>[n]

MinusOneTo(n) == IF Abs(n) % 2 = 0 THEN 1 ELSE -1
Max2(a, b) == IF a >= b THEN a ELSE b
Min2(a, b) == IF a <= b THEN a ELSE b

SymZero == [coef |-> RZero, rad |-> ROne]

wigner_den(j_1, j_2, j_3, m_1, m_2, ii) ==
    Factorial(ii) * Factorial(ii + j_3 - j_1 - m_2) * Factorial(j_2 + m_2 - ii)
      * Factorial(j_1 - ii - m_1) * Factorial(ii + j_3 - j_2 + m_1)
      * Factorial(j_1 + j_2 - j_3 - ii)

RECURSIVE wigner_sumres(_, _, _, _, _, _, _)
wigner_sumres(j_1, j_2, j_3, m_1, m_2, ii, imax) ==
    IF ii > imax THEN RZero
    ELSE RAdd(<<MinusOneTo(ii), wigner_den(j_1, j_2, j_3, m_1, m_2, ii)>>,
              wigner_sumres(j_1, j_2, j_3, m_1, m_2, ii + 1, imax))

\* sympy.physics.wigner.wigner_3j for integer arguments.
wigner_3j(j_1, j_2, j_3, m_1, m_2, m_3in) ==
    LET prefid == MinusOneTo(j_1 - j_2 - m_3in)
        m_3 == -m_3in
        a1 == j_1 + j_2 - j_3
        a2 == j_1 - j_2 + j_3
        a3 == -j_1 + j_2 + j_3
        argsqrt == RNorm(Factorial(a1) * Factorial(a2) * Factorial(a3)
                           * Factorial(j_1 - m_1) * Factorial(j_1 + m_1)
                           * Factorial(j_2 - m_2) * Factorial(j_2 + m_2)
                           * Factorial(j_3 - m_3) * Factorial(j_3 + m_3),
                         Factorial(j_1 + j_2 + j_3 + 1))
        imin == Max2(Max2(-j_3 + j_1 + m_2, -j_3 + j_2 - m_1), 0)
        imax == Min2(Min2(j_2 + m_2, j_1 - m_1), j_1 + j_2 - j_3)
        sumres == wigner_sumres(j_1, j_2, j_3, m_1, m_2, imin, imax)
    IN  IF m_1 + m_2 + m_3in # 0 THEN SymZero
        ELSE IF a1 < 0 \/ a2 < 0 \/ a3 < 0 THEN SymZero
        ELSE IF Abs(m_1) > j_1 \/ Abs(m_2) > j_2 \/ Abs(m_3) > j_3 THEN SymZero
        ELSE IF sumres[1] = 0 THEN SymZero
        ELSE [coef |-> RMul(sumres, RInt(prefid)), rad |-> argsqrt]

\* sympy.physics.wigner.clebsch_gordan:
\* (-1)^(j_1 - j_2 + m_3) * sqrt(2 j_3 + 1) * wigner_3j(j_1, j_2, j_3, m_1, m_2, -m_3)
clebsch_gordan(j_1, j_2, j_3, m_1, m_2, m_3) ==
    LET w == wigner_3j(j_1, j_2, j_3, m_1, m_2, -m_3)
    IN  IF w.coef[1] = 0 THEN SymZero
        ELSE [coef |-> RMul(w.coef, RInt(MinusOneTo(j_1 - j_2 + m_3))),
              rad |-> RMul(w.rad, RInt(2 * j_3 + 1))]

\* float(expr) of an exact value coef * sqrt(P/Q): the real number itself,
\* in the model's normal form (coef / Q) * sqrt(P * Q).
to_float(sym) ==
    IF sym.coef[1] = 0 THEN FZero
    ELSE Fin(SRoot(RMul(sym.coef, <<1, sym.rad[2]>>), sym.rad[1] * sym.rad[2]))

\* ------------------------------------------------ optional capabilities
\* The modules assert_installed may be asked for.
Fsph == "fsph"
Sympy == "sympy"
Wigner == "sympy.physics.wigner"

NoError == ""
MissingError(name) == "RuntimeError: missing " \o name

\* pythia.internal.assert_installed(name): the module of that name when it can
\* be imported, otherwise an error that names it.  installed is the set of
\* modules this environment can import.
assert_installed(installed, name) ==
    IF name \in installed THEN NoError ELSE MissingError(name)

\* ------------------------------------------------- coupling-coefficient cache
EmptyDict == [k \in {} |-> <<>>]

\* The cache as the calls see it: cache is the class attribute _cache (one
\* dict shared by every instance of _clebsch_gordan_cache), evals counts the
\* calls of the exact evaluator per key; hits counts the queries answered
\* from the dict and misses those that called the evaluator.
CacheState(cache, evals, hits, misses) ==
    [cache |-> cache, evals |-> evals, hits |-> hits, misses |-> misses]

\* dict[key] = value
dict_set(dict, key, value) == (key :> value) @@ dict

\* A key of the three degrees only, the value still computed from all six
\* arguments.
cache_key_degrees(args) == <<args[1], args[2], args[3]>>

\* Line 172: key = (l1, l2, l3, m1, m2, m3), args being the six arguments.
cache_key(args) == args

\* A dict that starts empty with every instance: no lookup finds its key.
cache_has_never(dict, key) == FALSE

\* Line 174: key in self._cache, the class attribute.
cache_has(dict, key) == key \in DOMAIN dict

\* _clebsch_gordan_cache()(l1, l2, l3, m1, m2, m3), args being the six
\* integers.  Returns the cache after the call, the error raised (NoError
\* when none) and the value returned.
cache_call(installed, cc, args) ==
    LET e1 == assert_installed(installed, Sympy)
        e2 == assert_installed(installed, Wigner)
        key == cache_key(args)
        hit == cache_has(cc.cache, key)
        computed == to_float(clebsch_gordan(args[1], args[2], args[3],
                                            args[4], args[5], args[6]))
        cache2 == IF hit THEN cc.cache ELSE dict_set(cc.cache, key, computed)
        evals2 == IF hit THEN cc.evals
                  ELSE dict_set(cc.evals, key,
                                IF key \in DOMAIN cc.evals
                                THEN cc.evals[key] + 1 ELSE 1)
        hits2 == IF hit THEN cc.hits + 1 ELSE cc.hits
        misses2 == IF hit THEN cc.misses ELSE cc.misses + 1
    IN  IF e1 # NoError THEN [cc |-> cc, err |-> e1, value |-> FZero]
        ELSE IF e2 # NoError THEN [cc |-> cc, err |-> e2, value |-> FZero]
        ELSE [cc |-> CacheState(cache2, evals2, hits2, misses2), err |-> NoError,
              value |-> cache2[key]]

\* ------------------------------------------------------ harmonic evaluator
\* fsph.get_LMs(lmax, negative_m=True): the (l, m) of each column.
RECURSIVE get_LMs(_)
\* An array given element by element, as the tuple of its elements.
array(f) == f \o <<>>

get_LMs(lmax) ==
    IF lmax < 0 THEN <<>>
    ELSE get_LMs(lmax - 1) \o [i \in 1..(2 * lmax + 1) |-> <<lmax, i - lmax - 1>>]

\* lm_columns: the column of each (l, m).
lm_columns(lmax) ==
    LET LMs == get_LMs(lmax)
    IN  [lm \in {LMs[i] : i \in 1..Len(LMs)} |->
            CHOOSE i \in 1..Len(LMs) : LMs[i] = lm]

\* The kinds of bond the harmonic evaluator is given: two directions with
\* finite harmonics, and a degenerate bond (zero length) whose angles, and so
\* whose harmonics, are NaN.
BondA == "A"
BondB == "B"
BondNaN == "NaN"
BondKinds == {BondA, BondB, BondNaN}

\* One harmonic of a bond.  Stand-ins for the values fsph computes, with the
\* symmetries of spherical harmonics: Y(0,0) is the same for every direction,
\* Y(l,0) is real, Y(l,-m) = (-1)^m conj(Y(l,m)).
RECURSIVE bond_sph(_, _, _)
bond_sph(kind, l, m) ==
    IF kind = BondNaN THEN CNaN
    ELSE IF m < 0
    THEN LET z == CConj(bond_sph(kind, l, -m))
         IN  IF (-m) % 2 = 0 THEN z ELSE Cx(FNeg(z.re), FNeg(z.im))
    ELSE IF m = 0 THEN (IF kind = BondA THEN CInt(l + 2, 0) ELSE CInt(2 - 3 * l, 0))
    ELSE IF kind = BondA THEN CInt(m, l)
    ELSE CInt(-2 * m, l)

\* fsph.pointwise_sph(phi, theta, lmax, negative_m=True): one row per bond.
pointwise_sph(bonds, lmax) ==
    LET LMs == get_LMs(lmax)
    IN  array([b \in 1..Len(bonds) |->
                  array([c \in 1..Len(LMs) |->
                            bond_sph(bonds[b], LMs[c][1], LMs[c][2])])])

\* ------------------------------------------------------------ neighbor list
\* nlist.segments of a well-formed list: the first row of each center.
RECURSIVE SumSeq(_)
SumSeq(s) == IF s = <<>> THEN 0 ELSE Head(s) + SumSeq(Tail(s))

segments(counts) ==
    array([i \in 1..Len(counts) |-> SumSeq(SubSeq(counts, 1, i - 1))])

\* ----------------------------------------------------- segmented average
RowAdd(r1, r2) == array([c \in 1..Len(r1) |-> CAdd(r1[c], r2[c])])

\* The sum of rows lo..hi (lo <= hi), from the first row on.
RECURSIVE RowSum(_, _, _)
RowSum(rows, lo, hi) ==
    IF lo = hi THEN rows[lo] ELSE RowAdd(RowSum(rows, lo, hi - 1), rows[hi])

\* np.add.reduceat(rows, segs) raises when an index is not a row.
reduceat_raises(rows, segs) ==
    \E i \in 1..Len(segs) : segs[i] >= Len(rows)

\* np.add.reduceat(rows, segs), segs being 0-based: entry i is the sum of the
\* rows segs[i] .. segs[i+1]-1 when segs[i] < segs[i+1], the single row
\* segs[i] otherwise; the last entry sums to the end.
reduceat(rows, segs) ==
    array([i \in 1..Len(segs) |->
              IF i = Len(segs) THEN RowSum(rows, segs[i] + 1, Len(rows))
              ELSE IF segs[i] < segs[i + 1]
              THEN RowSum(rows, segs[i] + 1, segs[i + 1])
              ELSE rows[segs[i] + 1]])

\* A complex number divided by a count n (numpy's complex division by
\* n + 0j): componentwise by n = 0, and by Smith's formula otherwise.
CDivCount(z, n) ==
    IF n = 0 THEN Cx(FDivInt(z.re, 0), FDivInt(z.im, 0))
    ELSE Cx(FDivInt(FAdd(z.re, FMul(z.im, FZero)), n),
            FDivInt(FSub(z.im, FMul(z.re, FZero)), n))

\* Line 203 left out: the NaN stays.
nan_kept(z) == z

\* sphs[np.isnan(sphs)] = 0
nan_to_zero(z) == IF CIsNaN(z) THEN CZero ELSE z

\* Lines 202-203: the averaged harmonics, one row per particle.
divide_rows(sums, counts) ==
    array([p \in 1..Len(counts) |->
              array([c \in 1..Len(sums[p]) |->
                        nan_to_zero(CDivCount(sums[p][c], counts[p]))])])

averaged_sphs(rows, counts) == divide_rows(reduceat(rows, segments(counts)), counts)

\* ------------------------------------------------------------- bispectrum
KeyError == "KeyError"
IndexError == "IndexError"

\* itertools.product(range(lmax + 1), range(lmax + 1), range(lmax + 1))
product3(lmax) ==
    LET n == lmax + 1
    IN  array([i \in 1..(n * n * n) |->
                  <<(i - 1) \div (n * n), ((i - 1) \div n) % n, (i - 1) % n>>])

\* Lines 216-217: the ends of the range of m1 for one m.
m1_min(l1, l2, m) == Max2(-l1, m - l2)

\* range(m1_min, m1_max) without the + 1 of line 218.
m1_max_exclusive(l1, l2, m) == Min2(l1, m + l2) - 1

m1_max(l1, l2, m) == Min2(l1, m + l2)

\* The test of line 221 left out: no term is skipped.
term_is_zero_never(value) == FALSE

\* Line 221: term == 0
term_is_zero(value) == value = FZero

\* Line 227 left out: one conjugated harmonic only.
m1_term_one_factor(ctx, value, m1, p) ==
    CMul(CReal(value), CConj(ctx.sphs[p][ctx.cols[<<ctx.l1, m1>>]]))

\* Lines 226-227: the term for particle p.
m1_term(ctx, value, m1, p) ==
    CMul(CMul(CReal(value), CConj(ctx.sphs[p][ctx.cols[<<ctx.l1, m1>>]])),
         CConj(ctx.sphs[p][ctx.cols[<<ctx.l2, ctx.m - m1>>]]))

\* Lines 221-229: the rest of one pass of the loop over m1, q being what the
\* cache query of line 219 gave.  ctx holds what the loop reads (installed,
\* sphs, cols, l1, l2, l, m); acc holds what it changes (cc, the cache; err;
\* right; nonzero).
m1_after(ctx, acc, m1, q) ==
    IF q.err # NoError THEN [acc EXCEPT !.err = q.err]
    ELSE IF term_is_zero(q.value) THEN [acc EXCEPT !.cc = q.cc]
    ELSE IF <<ctx.l1, m1>> \notin DOMAIN ctx.cols
            \/ <<ctx.l2, ctx.m - m1>> \notin DOMAIN ctx.cols
    THEN [acc EXCEPT !.cc = q.cc, !.err = KeyError]
    ELSE [acc EXCEPT
             !.cc = q.cc,
             !.right = array([p \in 1..Len(ctx.sphs) |->
                                CAdd(acc.right[p], m1_term(ctx, q.value, m1, p))]),
             !.nonzero = TRUE]

\* Lines 219-229: one pass of the loop over m1.
m1_body(ctx, acc, m1) ==
    m1_after(ctx, acc, m1,
             cache_call(ctx.installed, acc.cc,
                        <<ctx.l1, ctx.l2, ctx.l, m1, ctx.m - m1, ctx.m>>))

\* Lines 218-229: the passes lo..hi of the loop over m1, in order; an error
\* ends the loop.
RECURSIVE m1_loop(_, _, _, _)
m1_loop(ctx, acc, lo, hi) ==
    IF lo > hi \/ acc.err # NoError THEN acc
    ELSE IF lo = hi THEN m1_body(ctx, acc, lo)
    ELSE m1_loop(ctx, m1_loop(ctx, acc, lo, (lo + hi) \div 2),
                 (lo + hi) \div 2 + 1, hi)

\* result[result_key] += left*right on the defaultdict result.
add_to_result(result, key, left, right) ==
    dict_set(result, key,
             array([p \in 1..Len(left) |->
                       CAdd(IF key \in DOMAIN result THEN result[key][p] ELSE CZero,
                            CMul(left[p], right[p]))]))

\* The test of line 231 left out: every m adds to the result.
contributes_always(inner) == TRUE

\* Line 231: if nonzero
contributes(inner) == inner.nonzero

\* Lines 231-232: the rest of one pass of the loop over m, inner being what
\* the loop over m1 gave.  ctx holds installed, sphs, cols, l1, l2, l; acc
\* holds cc (the cache), err and result (the dict of the emitted triples).
m_after(ctx, acc, m, inner) ==
    IF inner.err # NoError THEN [acc EXCEPT !.cc = inner.cc, !.err = inner.err]
    ELSE IF ~contributes(inner) THEN [acc EXCEPT !.cc = inner.cc]
    ELSE [acc EXCEPT
             !.cc = inner.cc,
             !.result = add_to_result(
                            acc.result, <<ctx.l1, ctx.l2, ctx.l>>,
                            [p \in 1..Len(ctx.sphs) |->
                                ctx.sphs[p][ctx.cols[<<ctx.l, m>>]]],
                            inner.right)]

\* Lines 211-232: one pass of the loop over m.
m_body(ctx, acc, m) ==
    IF <<ctx.l, m>> \notin DOMAIN ctx.cols THEN [acc EXCEPT !.err = KeyError]
    ELSE m_after(ctx, acc, m,
                 m1_loop([installed |-> ctx.installed, sphs |-> ctx.sphs,
                          cols |-> ctx.cols, l1 |-> ctx.l1, l2 |-> ctx.l2,
                          l |-> ctx.l, m |-> m],
                         [cc |-> acc.cc, err |-> NoError,
                          right |-> array([p \in 1..Len(ctx.sphs) |-> CZero]),
                          nonzero |-> FALSE],
                         m1_min(ctx.l1, ctx.l2, m), m1_max(ctx.l1, ctx.l2, m)))

\* Lines 210-232: the passes lo..hi of the loop over m, in order, for one
\* (l1, l2, l); an error ends the loop.
RECURSIVE m_loop(_, _, _, _)
m_loop(ctx, acc, lo, hi) ==
    IF lo > hi \/ acc.err # NoError THEN acc
    ELSE IF lo = hi THEN m_body(ctx, acc, lo)
    ELSE m_loop(ctx, m_loop(ctx, acc, lo, (lo + hi) \div 2),
                (lo + hi) \div 2 + 1, hi)

\* Lines 208-232: one pass of the loop over the triples, for t = (l1, l2, l).
triple_body(ctx, acc, t) ==
    m_loop([installed |-> ctx.installed, sphs |-> ctx.sphs, cols |-> ctx.cols,
            l1 |-> t[1], l2 |-> t[2], l |-> t[3]],
           acc, -t[3], t[3])

\* Lines 207-232: the passes lo..hi of the loop over the triples, in order;
\* an error ends the loop.
RECURSIVE triple_loop(_, _, _, _, _)
triple_loop(ctx, triples, acc, lo, hi) ==
    IF lo > hi \/ acc.err # NoError THEN acc
    ELSE IF lo = hi THEN triple_body(ctx, acc, triples[lo])
    ELSE triple_loop(ctx, triples,
                     triple_loop(ctx, triples, acc, lo, (lo + hi) \div 2),
                     (lo + hi) \div 2 + 1, hi)

\* Tuples of one length in lexicographic order.
RECURSIVE TupleLess(_, _)
TupleLess(a, b) ==
    IF a = <<>> THEN FALSE
    ELSE IF Head(a) # Head(b) THEN Head(a) < Head(b)
    ELSE TupleLess(Tail(a), Tail(b))

\* sorted(S): each element at the place the number of smaller ones gives.
sorted(S) ==
    array([i \in 1..Cardinality(S) |->
              CHOOSE x \in S : Cardinality({y \in S : TupleLess(y, x)}) = i - 1])

\* The view as floats of line 236 left out: the real parts only.
pack_row_real_only(result, keys, p) ==
    array([c \in 1..Len(keys) |-> result[keys[c]][p].re])

\* Lines 234-236: the columns in sorted key order, each complex column viewed
\* as two float columns (real, imaginary), one row per particle.
pack_row(result, keys, p) ==
    array([c \in 1..(2 * Len(keys)) |->
              IF c % 2 = 1 THEN result[keys[(c + 1) \div 2]][p].re
              ELSE result[keys[c \div 2]][p].im])

pack_rows(result, keys, np) == array([p \in 1..np |-> pack_row(result, keys, p)])

pack(result, np) == pack_rows(result, sorted(DOMAIN result), np)

\* What a call of bispectrum leaves behind: the error raised (NoError when it
\* returned), the cache after it, how far it got (nlist: the neighbor list
\* was resolved; harmonics: the bond harmonics were computed), the averaged
\* harmonics, the emitted triples in column order and the matrix returned.
Outcome(err, cc, nlist, harmonics, sphs, keys, matrix) ==
    [err |-> err, cc |-> cc, nlist |-> nlist, harmonics |-> harmonics,
     sphs |-> sphs, keys |-> keys, matrix |-> matrix]

\* Lines 234-238, done being what the loops of lines 206-232 gave.
bispectrum_return(done, sphs) ==
    IF done.err # NoError
    THEN Outcome(done.err, done.cc, TRUE, TRUE, sphs, <<>>, <<>>)
    ELSE Outcome(NoError, done.cc, TRUE, TRUE, sphs,
                 sorted(DOMAIN done.result), pack(done.result, Len(sphs)))

\* Lines 204-238 with the loop of line 207 running over triples, sphs being
\* the averaged harmonics.
bispectrum_over(installed, cc, sphs, lmax, triples) ==
    bispectrum_return(
        triple_loop([installed |-> installed, sphs |-> sphs,
                     cols |-> lm_columns(lmax)],
                    triples,
                    [cc |-> cc, err |-> NoError, result |-> EmptyDict],
                    1, Len(triples)),
        sphs)

\* Lines 204-238, sphs being the averaged harmonics.
bispectrum_loops(installed, cc, sphs, lmax) ==
    bispectrum_over(installed, cc, sphs, lmax, product3(lmax))

\* Lines 201-238, rows being the harmonics of the bonds.
bispectrum_average(installed, cc, counts, rows, lmax) ==
    IF reduceat_raises(rows, segments(counts))
    THEN Outcome(IndexError, cc, TRUE, TRUE, <<>>, <<>>, <<>>)
    ELSE bispectrum_loops(installed, cc, averaged_sphs(rows, counts), lmax)

\* bispectrum(box, positions, neighbors, lmax) in an environment that can
\* import the modules of installed, with the cache cc.  The neighbor list the
\* positions resolve to is given by counts (nlist.neighbor_counts) and bonds
\* (the kind of each of its rows).
bispectrum(installed, cc, counts, bonds, lmax) ==
    IF assert_installed(installed, Fsph) # NoError
    THEN Outcome(assert_installed(installed, Fsph), cc, FALSE, FALSE,
                 <<>>, <<>>, <<>>)
    ELSE IF assert_installed(installed, Sympy) # NoError
    THEN Outcome(assert_installed(installed, Sympy), cc, FALSE, FALSE,
                 <<>>, <<>>, <<>>)
    ELSE bispectrum_average(installed, cc, counts,
                            pointwise_sph(bonds, lmax), lmax)

\* ------------------------------------------------------------------ state
VARIABLES
    installed,  \* the optional modules this environment can import
    counts,     \* nlist.neighbor_counts of the particle data the calls pass
    bonds,      \* the kind of each row of that neighbor list
    cache,      \* _clebsch_gordan_cache._cache
    evals,      \* per key, the calls of the exact evaluator so far
    last        \* the last operation and what it left behind

vars == <<installed, counts, bonds, cache, evals, last>>

AllModules == {Fsph, Sympy, Wigner}
\* A submodule can be imported only when its package can.
Environments == {S \in SUBSET AllModules : Wigner \in S => Sympy \in S}

\* The well-formed neighbor lists within the bounds: a count per particle,
\* the rows of each particle contiguous, and a kind for each row.
CountsOf(n) == {c \in [1..n -> 0..MaxBonds] : SumSeq(c) <= MaxBonds}
NeighborLists ==
    UNION {UNION {{[counts |-> c, bonds |-> b] :
                      b \in [1..SumSeq(c) -> BondKinds]} :
                  c \in CountsOf(n)} :
           n \in 1..MaxParticles}

\* The particle data of the process runs: one particle, bonds of one kind.
ProcessLists ==
    {d \in NeighborLists :
        Len(d.counts) = 1 /\ \A b \in 1..Len(d.bonds) : d.bonds[b] = BondA}

\* The keys of the direct queries: one every bispectrum call asks for, one
\* the calls with lmax >= 1 ask for, one beyond the triangle rule, one with
\* l3 = 2.
DirectKeys ==
    {<<0, 0, 0, 0, 0, 0>>, <<1, 1, 0, 0, 0, 0>>, <<0, 0, 1, 0, 0, 0>>,
     <<1, 1, 2, 1, 1, 2>>}

NoOp ==
    [op |-> "none", lmax |-> 0, key |-> <<>>, err |-> NoError, nlist |-> FALSE,
     harmonics |-> FALSE, sphs |-> <<>>, keys |-> <<>>, matrix |-> <<>>,
     value |-> FZero, hits |-> 0, fresh |-> 0, cold |-> TRUE]

InitWith(env, d) ==
    /\ installed = env
    /\ counts = d.counts
    /\ bonds = d.bonds
    /\ cache = EmptyDict
    /\ evals = EmptyDict
    /\ last = NoOp

\* A process in any environment, with particle data of ProcessLists.
Init == \E env \in Environments, d \in ProcessLists : InitWith(env, d)

\* A process with every module installed, with any particle data.
InitData == \E d \in NeighborLists : InitWith(AllModules, d)

\* The state after a call of bispectrum that left o behind.
AfterBispectrum(o, lmax) ==
    /\ cache' = o.cc.cache
    /\ evals' = o.cc.evals
    /\ last' = [op |-> "bispectrum", lmax |-> lmax, key |-> <<>>,
                err |-> o.err, nlist |-> o.nlist, harmonics |-> o.harmonics,
                sphs |-> o.sphs, keys |-> o.keys, matrix |-> o.matrix,
                value |-> FZero, hits |-> o.cc.hits,
                fresh |-> o.cc.misses, cold |-> cache = EmptyDict]
    /\ UNCHANGED <<installed, counts, bonds>>

\* A call bispectrum(box, positions, neighbors, lmax).
CallBispectrum(lmax) ==
    AfterBispectrum(
        bispectrum(installed, CacheState(cache, evals, 0, 0), counts, bonds, lmax),
        lmax)

\* The state after a direct query that gave q.
AfterCache(q, key) ==
    /\ cache' = q.cc.cache
    /\ evals' = q.cc.evals
    /\ last' = [NoOp EXCEPT !.op = "cache", !.key = key, !.err = q.err,
                            !.value = q.value, !.hits = q.cc.hits,
                            !.fresh = q.cc.misses,
                            !.cold = (cache = EmptyDict)]
    /\ UNCHANGED <<installed, counts, bonds>>

\* A direct query _clebsch_gordan_cache()(*key).
CallCache(key) ==
    AfterCache(cache_call(installed, CacheState(cache, evals, 0, 0), key), key)

Bispectrum == \E lmax \in 0..MaxLmax : CallBispectrum(lmax)
Query == \E key \in DirectKeys : CallCache(key)
\* The first call of bispectrum in a process: the cache is empty.
FirstBispectrum == cache = EmptyDict /\ Bispectrum

Next == Bispectrum \/ Query
NextData == FirstBispectrum

Spec == Init /\ [][Next]_vars
SpecData == InitData /\ [][NextData]_vars

\* ----------------------------------------------------------------- claims
\* What the calls are measured against.

\* The exact coupling coefficient as the float the evaluator gives.
Coupling(l1, l2, l, m1, m2, m) == to_float(clebsch_gordan(l1, l2, l, m1, m2, m))

Returned == last.op = "bispectrum" /\ last.err = NoError
MissingErrors == {MissingError(name) : name \in AllModules}

\* C1: over the life of the process the exact evaluator runs exactly once
\* for each distinct key ever requested: the stored keys are the evaluated
\* keys, each evaluated once and holding the evaluator's float; no step
\* changes or drops an entry; a request adds one evaluation per key it is
\* the first to ask for; and a query of a stored key returns the stored
\* value without evaluating.
C1_Stored ==
    /\ DOMAIN evals = DOMAIN cache
    /\ \A k \in DOMAIN cache :
          /\ evals[k] = 1
          /\ cache[k] = Coupling(k[1], k[2], k[3], k[4], k[5], k[6])
C1_Step ==
    /\ \A k \in DOMAIN cache :
          k \in DOMAIN cache' /\ cache'[k] = cache[k] /\ evals'[k] = evals[k]
    /\ last'.fresh = Cardinality(DOMAIN cache') - Cardinality(DOMAIN cache)
    /\ (last'.op = "cache" /\ last'.key \in DOMAIN cache)
          => last'.fresh = 0 /\ last'.hits = 1
                /\ last'.value = cache[last'.key]
C1_EvaluatedOncePerKey == [](C1_Stored) /\ [][C1_Step]_vars
\* A direct query answered from the store of an earlier request.
C1_Witness ==
    /\ last.op = "cache" /\ last.err = NoError
    /\ last.hits = 1 /\ last.fresh = 0
    /\ evals[last.key] = 1

\* C2: a call in an environment that lacks any required optional capability
\* fails with the error naming the missing capability before any particle
\* is processed: no neighbor list resolved, no harmonics computed, no
\* coefficient evaluated.
C2_FailsBeforeProcessing ==
    (last.op = "bispectrum" /\ installed # AllModules)
        => /\ last.err \in MissingErrors
           /\ ~last.nlist
           /\ ~last.harmonics
           /\ last.fresh = 0

\* C8: two calls with the same inputs return the same matrix whatever the
\* cache held when they started: what a call returned is what the call from
\* an empty cache returns.
C8_FromEmpty(o) ==
    /\ o.err = last.err
    /\ o.keys = last.keys
    /\ o.matrix = last.matrix
C8_Deterministic ==
    last.op = "bispectrum"
        => C8_FromEmpty(bispectrum(installed,
                                   CacheState(EmptyDict, EmptyDict, 0, 0),
                                   counts, bonds, last.lmax))
\* A call with lmax >= 1 that returned a nonzero invariant from a cache some
\* of whose entries earlier requests had stored.
C8_Witness ==
    /\ Returned /\ last.lmax >= 1
    /\ ~last.cold /\ last.hits > 0
    /\ \E k \in 1..Len(last.matrix[1]) : last.matrix[1][k] # FZero

\* The column of (l, m) among the harmonics in the order of l, then m.
RefColumn(l, m) == l * l + l + m + 1

\* The (l1, l2, l) with every degree up to lmax.
Triples(lmax) == (0..lmax) \X (0..lmax) \X (0..lmax)

\* The (m, m1) the loops of the claim enumerate for (l1, l2, l).
EnumeratedPairs(l1, l2, l) ==
    {mm \in (-l..l) \X (-(l1 + l2 + l)..(l1 + l2 + l)) :
        /\ mm[2] >= Max2(-l1, mm[1] - l2)
        /\ mm[2] <= Min2(l1, mm[1] + l2)}

\* Some enumerated coefficient of the triple t is nonzero.
Survives(t) ==
    \E mm \in EnumeratedPairs(t[1], t[2], t[3]) :
        Coupling(t[1], t[2], t[3], mm[2], mm[1] - mm[2], mm[1]) # FZero

\* |l1 - l2| <= l <= l1 + l2
Triangle(t) == Abs(t[1] - t[2]) <= t[3] /\ t[3] <= t[1] + t[2]

\* The sum of the complex numbers f[i], i in lo..hi.
RECURSIVE CSumRange(_, _, _)
CSumRange(f, lo, hi) ==
    IF lo > hi THEN CZero
    ELSE IF lo = hi THEN f[lo]
    ELSE CAdd(CSumRange(f, lo, (lo + hi) \div 2),
              CSumRange(f, (lo + hi) \div 2 + 1, hi))

\* The (m, m1, m2) with m1 + m2 = m, |m1| <= l1, |m2| <= l2, |m| <= l.
RefTerms(l1, l2, l) ==
    {t \in (-l..l) \X (-l1..l1) \X (-l2..l2) : t[2] + t[3] = t[1]}

\* CG(l1,m1; l2,m2 | l,m) * conj(Y[l1,m1]) * conj(Y[l2,m2]) * Y[l,m] for the
\* averaged harmonics Y of one particle.
RefTerm(Y, l1, l2, l, t) ==
    CMul(CMul(CMul(CReal(Coupling(l1, l2, l, t[2], t[3], t[1])),
                   CConj(Y[RefColumn(l1, t[2])])),
              CConj(Y[RefColumn(l2, t[3])])),
         Y[RefColumn(l, t[1])])

\* The reference sum of the triple (l1, l2, l) for one particle: over m, and
\* for each m over the m1 whose m2 = m - m1 has |m2| <= l2.
RefSumAt(Y, l1, l2, l, m) ==
    CSumRange([m1 \in -l1..l1 |->
                  IF <<m, m1, m - m1>> \in RefTerms(l1, l2, l)
                  THEN RefTerm(Y, l1, l2, l, <<m, m1, m - m1>>)
                  ELSE CZero],
              -l1, l1)
RefSum(Y, l1, l2, l) ==
    CSumRange([m \in -l..l |-> RefSumAt(Y, l1, l2, l, m)], -l, l)

\* The value the matrix holds for particle p and the k-th triple.
Emitted(p, k) == Cx(last.matrix[p][2 * k - 1], last.matrix[p][2 * k])

\* C10: for every emitted triple and every particle the emitted value is the
\* reference sum over all (m1, m2, m) with m1 + m2 = m, |m1| <= l1,
\* |m2| <= l2, |m| <= l, and no harmonic is looked up outside
\* |m| <= l <= lmax.
C10_ReferenceSum ==
    /\ last.err # KeyError
    /\ Returned =>
          \A p \in 1..Len(counts), k \in 1..Len(last.keys) :
              Emitted(p, k) = RefSum(last.sphs[p], last.keys[k][1],
                                     last.keys[k][2], last.keys[k][3])
\* A call with lmax >= 1 that returned a nonzero value for a triple of
\* degrees (1, 1, l), whose pairs are clipped at both ends.
C10_Witness ==
    /\ Returned
    /\ \E p \in 1..Len(counts), k \in 1..Len(last.keys) :
          /\ last.keys[k][1] = 1 /\ last.keys[k][2] = 1
          /\ Emitted(p, k) # CZero

\* The triples of Triples(lmax) that survive, in ascending order.
SurvivingKeys(lmax) == sorted({t \in Triples(lmax) : Survives(t)})

\* C3: a call that returns gives one row per particle and two columns per
\* surviving triple, the triples in ascending lexicographic order, the real
\* part of the k-th triple's invariant directly followed by its imaginary
\* part.
C3_Layout ==
    Returned =>
        /\ Len(last.matrix) = Len(counts)
        /\ Len(last.keys) = Len(SurvivingKeys(last.lmax))
        /\ \A k \in 1..(Len(last.keys) - 1) :
              TupleLess(last.keys[k], last.keys[k + 1])
        /\ \A p \in 1..Len(counts) :
              /\ Len(last.matrix[p]) = 2 * Len(SurvivingKeys(last.lmax))
              /\ \A k \in 1..Len(last.keys) :
                    /\ last.matrix[p][2 * k - 1]
                         = RefSum(last.sphs[p], last.keys[k][1],
                                  last.keys[k][2], last.keys[k][3]).re
                    /\ last.matrix[p][2 * k]
                         = RefSum(last.sphs[p], last.keys[k][1],
                                  last.keys[k][2], last.keys[k][3]).im
\* A call for two particles that returned several triples, one of them with
\* a value whose real and imaginary parts differ.
C3_Witness ==
    /\ Returned
    /\ Len(counts) = 2 /\ Len(last.keys) > 1
    /\ \E p \in 1..Len(counts), k \in 1..Len(last.keys) :
          last.matrix[p][2 * k - 1] # last.matrix[p][2 * k]

\* C4: a triple is in the output exactly when some coefficient
\* CG(l1,m1; l2,m-m1 | l,m) with m in [-l, l] and m1 in
\* [max(-l1, m-l2), min(l1, m+l2)] is nonzero, whatever the particle data:
\* also when its sum is zero for every particle.
C4_EmittedIffCoefficient ==
    Returned =>
        {last.keys[k] : k \in 1..Len(last.keys)}
            = {t \in Triples(last.lmax) : Survives(t)}
\* A call with lmax >= 1 on data whose averaged harmonics are all zero: every
\* emitted column is zero, and the triples are emitted all the same.
C4_Witness ==
    /\ Returned /\ last.lmax >= 1
    /\ \A p \in 1..Len(counts) :
          /\ \A c \in 1..Len(last.sphs[p]) : last.sphs[p][c] = CZero
          /\ \A c \in 1..Len(last.matrix[p]) : last.matrix[p][c] = FZero
    /\ Len(last.keys) > 1

\* C5: no triple that violates |l1 - l2| <= l <= l1 + l2 is in the output,
\* and running the loop over the triples that satisfy it only gives the
\* same output.
C5_Prefiltered(o) ==
    /\ o.err = NoError
    /\ o.keys = last.keys
    /\ o.matrix = last.matrix
C5_TriangleOnly ==
    Returned =>
        /\ \A k \in 1..Len(last.keys) : Triangle(last.keys[k])
        /\ C5_Prefiltered(
               bispectrum_over(installed, CacheState(EmptyDict, EmptyDict, 0, 0),
                               last.sphs, last.lmax,
                               SelectSeq(product3(last.lmax), Triangle)))
\* A call with lmax >= 1, whose loop meets triples that violate the rule,
\* that returned a nonzero value.
C5_Witness ==
    /\ Returned /\ last.lmax >= 1
    /\ \E t \in Triples(last.lmax) : ~Triangle(t)
    /\ \E p \in 1..Len(counts), k \in 1..Len(last.keys) : Emitted(p, k) # CZero

\* C6 (as stated): whenever some particle has no neighbor, at any place
\* among the centers, the call does not raise, that particle's averaged
\* harmonics are exactly zero and its output row holds no NaN.
C6_ZeroNeighbors ==
    (last.op = "bispectrum" /\ \E p \in 1..Len(counts) : counts[p] = 0)
        => /\ last.err = NoError
           /\ \A p \in 1..Len(counts) :
                 counts[p] = 0
                     => /\ \A c \in 1..Len(last.sphs[p]) : last.sphs[p][c] = CZero
                        /\ \A c \in 1..Len(last.matrix[p]) :
                              ~FIsNaN(last.matrix[p][c])

\* |a|^2 for a finite complex a.
AbsSquared(a) == FAdd(FMul(a.re, a.re), FMul(a.im, a.im))

\* C7 (as stated): for lmax = 0 the output holds exactly the triple (0,0,0),
\* and for every particle with a neighbor its invariant is c * |a|^2, a its
\* averaged harmonic at (0,0) and c the (0,0,0) coupling coefficient.
C7_PowerOfMean ==
    (Returned /\ last.lmax = 0)
        => /\ last.keys = <<(<<0, 0, 0>>)>>
           /\ \A p \in 1..Len(counts) :
                 counts[p] >= 1
                     => Emitted(p, 1)
                          = CReal(FMul(Coupling(0, 0, 0, 0, 0, 0),
                                       AbsSquared(last.sphs[p][1])))

\* C7 (amended): for lmax = 0 the output holds exactly the triple (0,0,0),
\* and for every particle with a neighbor its invariant is
\* c * |a|^2 * conj(a): the product is of three harmonics, not two.
C7_CubicInMean ==
    (Returned /\ last.lmax = 0)
        => /\ last.keys = <<(<<0, 0, 0>>)>>
           /\ \A p \in 1..Len(counts) :
                 counts[p] >= 1
                     => Emitted(p, 1)
                          = CMul(CReal(FMul(Coupling(0, 0, 0, 0, 0, 0),
                                            AbsSquared(last.sphs[p][1]))),
                                 CConj(last.sphs[p][1]))
\* A call with lmax = 0 for a particle with neighbors and a nonzero averaged
\* harmonic, where c * |a|^2 * conj(a) and c * |a|^2 differ.
C7_Witness ==
    /\ Returned /\ last.lmax = 0
    /\ \E p \in 1..Len(counts) :
          /\ counts[p] >= 1
          /\ last.sphs[p][1] # CZero
          /\ Emitted(p, 1) # CReal(FMul(Coupling(0, 0, 0, 0, 0, 0),
                                        AbsSquared(last.sphs[p][1])))

\* The rows of the neighbor list that belong to particle p, and the valid
\* ones among them.
SegmentRows(p) ==
    {b \in 1..Len(bonds) :
        /\ b > SumSeq(SubSeq(counts, 1, p - 1))
        /\ b <= SumSeq(SubSeq(counts, 1, p))}
ValidRows(p) == {b \in SegmentRows(p) : bonds[b] # BondNaN}

\* The mean over the rows of S of the bond harmonics at (l, m).
MeanOver(S, l, m) ==
    CDivCount(CSumRange([b \in 1..Len(bonds) |->
                            IF b \in S THEN bond_sph(bonds[b], l, m) ELSE CZero],
                        1, Len(bonds)),
              Cardinality(S))

\* The (l, m) up to lmax.
Orders(lmax) == {lm \in (0..lmax) \X (-lmax..lmax) : Abs(lm[2]) <= lm[1]}

\* C9 (as stated): the averaged harmonic of every particle at every (l, m)
\* is the mean of its bond harmonics over the valid (non-NaN) bonds of its
\* segment only.
C9_MeanOfValid ==
    Returned =>
        \A p \in 1..Len(counts), lm \in Orders(last.lmax) :
            ValidRows(p) # {}
                => last.sphs[p][RefColumn(lm[1], lm[2])]
                     = MeanOver(ValidRows(p), lm[1], lm[2])

\* C9 (amended): the averaged harmonic of a particle with neighbors is the
\* mean of its bond harmonics over its whole segment when every bond of the
\* segment is valid, and exactly zero when the segment holds an invalid
\* (NaN) bond: an invalid bond is not ignored, it zeroes the average.
C9_MeanOrZero ==
    Returned =>
        \A p \in 1..Len(counts), lm \in Orders(last.lmax) :
            counts[p] >= 1
                => last.sphs[p][RefColumn(lm[1], lm[2])]
                     = IF ValidRows(p) = SegmentRows(p)
                       THEN MeanOver(SegmentRows(p), lm[1], lm[2])
                       ELSE CZero
\* A call with lmax >= 1 that returned for a particle whose segment holds a
\* valid and an invalid bond: its averaged harmonic is zero.
C9_Witness ==
    /\ Returned /\ last.lmax >= 1
    /\ \E p \in 1..Len(counts) :
          /\ ValidRows(p) # {} /\ ValidRows(p) # SegmentRows(p)
          /\ last.sphs[p][1] = CZero
====
